---- MODULE Spec2Model ----
(***************************************************************************)
(* Model of pulp_rpm/plugins/importers/yum/upload.py: the upload           *)
(* dispatcher, its three registered handlers (package, group/category,     *)
(* erratum) and the helpers they call.  Python 2 semantics: IOError and    *)
(* OSError are distinct classes, a bare "except:" catches every exception. *)
(***************************************************************************)
EXTENDS Integers, Sequences, FiniteSets, TLC

VARIABLES args, pc, frame, report, raised, trace, fs, catalog, links

vars == <<args, pc, frame, report, raised, trace, fs, catalog, links>>

\* ---------------------------------------------------------------- bounds
MaxEpoch == 10         \* largest epoch a header declares
MaxRuns == 2           \* file content is at most this many runs of equal bytes
MaxUnits == 2          \* units already associated with the repository

\* ------------------------------------------------------ program constants
RPMTAG_NOSOURCE == 1051
CHECKSUM_READ_BUFFER_SIZE == 65536
CONFIG_SKIP_LINK_ERRATUM == "skip_erratum_link"
TYPE_SHA256 == "sha256"

\* type ids (models.<Class>.TYPE)
RPM_TYPE == "rpm"
SRPM_TYPE == "srpm"
GROUP_TYPE == "package_group"
CATEGORY_TYPE == "package_category"
ERRATA_TYPE == "erratum"
YUM_MD_FILE_TYPE == "yum_repo_metadata_file"

\* the invocations of upload that are under way
Invs == DOMAIN pc

\* ------------------------------------------------------------ python dicts
EmptyDict == [k \in {} |-> ""]

\* d.update(u): the fields of u replace or extend the fields of d
DictUpdate(d, u) ==
    [k \in (DOMAIN d) \cup (DOMAIN u) |-> IF k \in DOMAIN u THEN u[k] ELSE d[k]]

\* d[k] = v
DictSet(d, k, v) ==
    [j \in (DOMAIN d) \cup {k} |-> IF j = k THEN v ELSE d[j]]

\* "x or {}" for an optional dict held as <<>> (None) or <<d>>
OrEmpty(opt) == IF opt = <<>> THEN EmptyDict ELSE opt[1]

\* ------------------------------------------------------------ conversions
Digits == <<"0", "1", "2", "3", "4", "5", "6", "7", "8", "9">>
HexDigits == <<"0", "1", "2", "3", "4", "5", "6", "7", "8", "9",
               "a", "b", "c", "d", "e", "f">>

\* str(n) for a non-negative integer
RECURSIVE Str(_)
Str(n) == IF n < 10 THEN Digits[n + 1] ELSE Str(n \div 10) \o Digits[(n % 10) + 1]

\* os.path.basename of a path held as a sequence of components
Basename(path) == path[Len(path)]

\* -------------------------------------------------------------- file bytes
\* A file's content is a sequence of runs [byte, count]: count copies of byte.
RECURSIVE TotalLen(_)
TotalLen(runs) ==
    IF runs = <<>> THEN 0 ELSE runs[1].count + TotalLen(Tail(runs))

\* the first n bytes of runs
RECURSIVE Take(_, _)
Take(runs, n) ==
    IF runs = <<>> \/ n = 0 THEN <<>>
    ELSE IF runs[1].count <= n
         THEN <<runs[1]>> \o Take(Tail(runs), n - runs[1].count)
         ELSE <<[byte |-> runs[1].byte, count |-> n]>>

\* runs without their first n bytes
RECURSIVE Drop(_, _)
Drop(runs, n) ==
    IF runs = <<>> \/ n = 0 THEN runs
    ELSE IF runs[1].count <= n
         THEN Drop(Tail(runs), n - runs[1].count)
         ELSE <<[byte |-> runs[1].byte, count |-> runs[1].count - n]>> \o Tail(runs)

\* hashlib, abstracted to a byte-wise checksum with an 8-bit state:
\* m.update(buf) folds every byte of buf into the state.
HashModulus == 251
HashNew == 0

RECURSIVE HashUpdate(_, _)
HashUpdate(m, buf) ==
    IF buf = <<>> THEN m
    ELSE HashUpdate((m + (buf[1].byte + 1) * buf[1].count) % HashModulus, Tail(buf))

\* m.hexdigest()
HexDigest(m) == HexDigits[(m \div 16) + 1] \o HexDigits[(m % 16) + 1]

\* the read loop of _calculate_checksum: f.read(CHECKSUM_READ_BUFFER_SIZE)
\* until it returns an empty buffer
RECURSIVE checksum_loop(_, _)
checksum_loop(m, rest) ==
    LET file_buffer == Take(rest, CHECKSUM_READ_BUFFER_SIZE)
    IN IF file_buffer = <<>> THEN m
       ELSE checksum_loop(HashUpdate(m, file_buffer),
                          Drop(rest, CHECKSUM_READ_BUFFER_SIZE))

\* variant: a single f.read() instead of the loop
calculate_checksum_FirstBufferOnly(checksum_type, content) ==
    HexDigest(HashUpdate(HashNew, Take(content, CHECKSUM_READ_BUFFER_SIZE)))

calculate_checksum(checksum_type, content) ==
    HexDigest(checksum_loop(HashNew, content))

\* ----------------------------------------------------------- rpm headers
\* headers[k] of a parsed package; epoch is <<>> (None) or <<n>>, tags is
\* headers.keys() restricted to the tags the code asks about.
Header(epoch, sourcepackage, nosource) ==
    [name |-> "pkg", version |-> "1.0", release |-> "1",
     epoch |-> epoch, sourcepackage |-> sourcepackage,
     tags |-> IF nosource THEN {RPMTAG_NOSOURCE} ELSE {},
     arch |-> "noarch", buildhost |-> "builder", license |-> "GPLv2",
     vendor |-> "acme", description |-> "a package"]

\* rpm_parse.get_package_xml output, after ET.fromstring and utils.strip_ns:
\* whether the package and format elements are there, and the children of
\* the provides / requires elements (<<>> = element missing, <<cs>> = the
\* element with children cs).
Entry(n) == [tag |-> "entry", name |-> n]
OtherChild == [tag |-> "comment", name |-> ""]

Snippet(package, format, provides, requires) ==
    [package |-> package, format |-> format,
     provides |-> provides, requires |-> requires]

FullSnippet == Snippet(TRUE, TRUE, << <<Entry("p1"), Entry("p2")>> >>,
                       << <<Entry("r1")>> >>)

\* a staged file: can its header be read, the header, the bytes, and what
\* the snippet generator makes of it (<<>> = the generator raises)
File(parsable, headers, content, xml) ==
    [parsable |-> parsable, headers |-> headers, content |-> content, xml |-> xml]

\* ------------------------------------------------------ _generate_rpm_data
Extracted(exc, unit_key, metadata) ==
    [exc |-> exc, unit_key |-> unit_key, metadata |-> metadata]

\* variant: str(headers['epoch']) without the test for None
epoch_munging_NoDefault(epoch) == IF epoch = <<>> THEN "None" ELSE Str(epoch[1])

\* lines 330-333: epoch munging
epoch_munging(epoch) == IF epoch = <<>> THEN Str(0) ELSE Str(epoch[1])

\* variant: the no-source tag looked at before the source package flag
arch_of_TagFirst(headers) ==
    IF RPMTAG_NOSOURCE \in headers.tags THEN "nosrc"
    ELSE IF headers.sourcepackage THEN "src"
    ELSE headers.arch

\* lines 336-342: arch
arch_of(headers) ==
    IF headers.sourcepackage
    THEN IF RPMTAG_NOSOURCE \in headers.tags THEN "nosrc" ELSE "src"
    ELSE headers.arch

\* rpm_filename is <<>> (None) or <<path>>; fsys is the file system; fault is
\* what reading the file in _calculate_checksum raises ("" = nothing).
generate_rpm_data(rpm_filename, fsys, fault) ==
    IF rpm_filename = <<>>
    THEN Extracted("TypeError", EmptyDict, EmptyDict)           \* os.open(None)
    ELSE IF rpm_filename[1] \notin DOMAIN fsys
    THEN Extracted("OSError", EmptyDict, EmptyDict)             \* os.open: no file
    ELSE LET f == fsys[rpm_filename[1]]
             headers == f.headers
         IN IF ~f.parsable
            THEN Extracted("rpm.error", EmptyDict, EmptyDict)   \* hdrFromFdno
            ELSE IF fault # ""
            THEN Extracted(fault, EmptyDict, EmptyDict)         \* open / f.read
            ELSE Extracted("",
                    [checksumtype |-> TYPE_SHA256,
                     checksum |-> calculate_checksum(TYPE_SHA256, f.content),
                     name |-> headers.name,
                     version |-> headers.version,
                     release |-> headers.release,
                     epoch |-> epoch_munging(headers.epoch),
                     arch |-> arch_of(headers)],
                    [relativepath |-> Basename(rpm_filename[1]),
                     filename |-> Basename(rpm_filename[1]),
                     buildhost |-> headers.buildhost,
                     license |-> headers.license,
                     vendor |-> headers.vendor,
                     description |-> headers.description])

\* ------------------------------------------------------------------ models
\* models.<Class>.UNIT_KEY_NAMES: the keyword arguments a model requires
UNIT_KEY_NAMES(type_id) ==
    IF type_id \in {RPM_TYPE, SRPM_TYPE}
    THEN {"name", "epoch", "version", "release", "arch", "checksumtype", "checksum"}
    ELSE IF type_id = ERRATA_TYPE THEN {"id"}
    ELSE {"id", "repo_id"}

\* model.relative_path: where a package file goes below the storage root;
\* None (<<>>) for the types without a file
relative_path_of(type_id, unit_key, metadata) ==
    IF type_id \in {RPM_TYPE, SRPM_TYPE}
    THEN << <<unit_key.name, unit_key.version, unit_key.release, unit_key.arch,
              unit_key.checksum,
              IF metadata # <<>> /\ "relativepath" \in DOMAIN metadata[1]
              THEN metadata[1].relativepath ELSE "">> >>
    ELSE <<>>

\* model_class(metadata=metadata, **unit_key): unit_key is <<>> (None) or
\* <<dict>>, metadata likewise.  A TypeError comes from "**None", from a
\* missing required keyword and from an unexpected keyword.
ModelResult(exc, model) == [exc |-> exc, model |-> model]

NoModel == [TYPE |-> "", unit_key |-> EmptyDict, metadata |-> <<>>,
            relative_path |-> <<>>]

model_class(type_id, metadata, unit_key) ==
    IF unit_key = <<>> THEN ModelResult("TypeError", NoModel)
    ELSE IF DOMAIN unit_key[1] # UNIT_KEY_NAMES(type_id)
    THEN ModelResult("TypeError", NoModel)
    ELSE ModelResult("",
            [TYPE |-> type_id, unit_key |-> unit_key[1], metadata |-> metadata,
             relative_path |-> relative_path_of(type_id, unit_key[1], metadata)])

\* --------------------------------------------------------------- conduit
\* variant: every file of a type stored at the same path
init_unit_SharedPath(type_id, unit_key, metadata, relative_path) ==
    [type_id |-> type_id, unit_key |-> unit_key, metadata |-> metadata,
     storage_path |-> IF relative_path = <<>> THEN <<>>
                      ELSE << <<"content", type_id>> >>]

\* conduit.init_unit: a Unit with the storage path the platform assigns
init_unit(type_id, unit_key, metadata, relative_path) ==
    [type_id |-> type_id, unit_key |-> unit_key, metadata |-> metadata,
     storage_path |-> IF relative_path = <<>> THEN <<>>
                      ELSE << <<"content", type_id>> \o relative_path[1] >>]

NoUnit == [type_id |-> "", unit_key |-> EmptyDict, metadata |-> <<>>,
           storage_path |-> <<>>]

\* ----------------------------------------------------------- the dispatcher
\* variant: _handle_yum_metadata_file (lines 168-189) registered as well
handlers_WithYumMetadataFile ==
    [t \in {RPM_TYPE, SRPM_TYPE, GROUP_TYPE, CATEGORY_TYPE, ERRATA_TYPE,
            YUM_MD_FILE_TYPE} |->
        IF t \in {RPM_TYPE, SRPM_TYPE} THEN "_handle_package"
        ELSE IF t = ERRATA_TYPE THEN "_handle_erratum"
        ELSE IF t = YUM_MD_FILE_TYPE THEN "_handle_yum_metadata_file"
        ELSE "_handle_group_category"]

\* variant: unknown types fall through to the group/category handler
handlers_WithDefault ==
    [t \in {RPM_TYPE, SRPM_TYPE, GROUP_TYPE, CATEGORY_TYPE, ERRATA_TYPE,
            YUM_MD_FILE_TYPE, "widget"} |->
        IF t \in {RPM_TYPE, SRPM_TYPE} THEN "_handle_package"
        ELSE IF t = ERRATA_TYPE THEN "_handle_erratum"
        ELSE "_handle_group_category"]

\* lines 90-96: the handlers mapping
handlers ==
    [t \in {RPM_TYPE, SRPM_TYPE, GROUP_TYPE, CATEGORY_TYPE, ERRATA_TYPE} |->
        IF t \in {RPM_TYPE, SRPM_TYPE} THEN "_handle_package"
        ELSE IF t = ERRATA_TYPE THEN "_handle_erratum"
        ELSE "_handle_group_category"]

\* SyncReport(success_flag, added_count, updated_count, removed_count,
\*            summary, details)
SyncReport(success_flag, added_count, updated_count, removed_count, summary, details) ==
    [success_flag |-> success_flag, added_count |-> added_count,
     updated_count |-> updated_count, removed_count |-> removed_count,
     summary |-> summary, details |-> details]

\* variant: the failure report built with the success flag set
fail_report_SuccessFlag(message) ==
    SyncReport(TRUE, 0, 0, 0, "", [k \in {"errors"} |-> <<message>>])

\* lines 378-382
fail_report(message) ==
    SyncReport(FALSE, 0, 0, 0, "", [k \in {"errors"} |-> <<message>>])

\* line 121
success_report == SyncReport(TRUE, 1, 0, 0, "", [k \in {} |-> <<>>])

MSG_UNSUPPORTED(type_id) == type_id \o " is not a supported type for upload"
MSG_MODEL == "metadata for the uploaded file was invalid"
MSG_STORE == "file could not be deployed into Pulp's storage"
MSG_PACKAGE == "metadata for the given package could not be extracted"
MSG_UNEXPECTED == "unexpected error occurred importing uploaded file"

\* lines 101-118: the except clauses of upload, in order; the last one is a
\* bare except, so every exception class ends in a report
Caught(caught, msg) == [caught |-> caught, msg |-> msg]

\* variant: "except Exception:" as the last clause, which lets the classes
\* outside Exception through
upload_except_ExceptException(exc) ==
    IF exc = "ModelInstantiationError" THEN Caught(TRUE, MSG_MODEL)
    ELSE IF exc = "StoreFileError" THEN Caught(TRUE, MSG_STORE)
    ELSE IF exc = "PackageMetadataError" THEN Caught(TRUE, MSG_PACKAGE)
    ELSE IF exc = "KeyboardInterrupt" THEN Caught(FALSE, "")
    ELSE Caught(TRUE, MSG_UNEXPECTED)

upload_except(exc) ==
    IF exc = "ModelInstantiationError" THEN Caught(TRUE, MSG_MODEL)
    ELSE IF exc = "StoreFileError" THEN Caught(TRUE, MSG_STORE)
    ELSE IF exc = "PackageMetadataError" THEN Caught(TRUE, MSG_PACKAGE)
    ELSE Caught(TRUE, MSG_UNEXPECTED)

\* ------------------------------------------------- _update_provides_requires
\* primary._process_rpm_entry_element: one entry element to one capability
process_rpm_entry_element(e) == [name |-> e.name]

\* element.findall('entry'): the entry children, in document order
RECURSIVE findall_entry(_)
findall_entry(children) ==
    IF children = <<>> THEN <<>>
    ELSE (IF children[1].tag = "entry" THEN <<children[1]>> ELSE <<>>)
         \o findall_entry(Tail(children))

MapEntries(es) == [n \in 1..Len(es) |-> process_rpm_entry_element(es[n])]

\* "map(f, el.findall('entry')) if el else []": el is <<>> when find()
\* returned None; an Element without children is false as well
entries_of(el) ==
    IF el # <<>> /\ Len(el[1]) > 0 THEN MapEntries(findall_entry(el[1])) ELSE <<>>

ProvReq(exc, provides, requires) ==
    [exc |-> exc, provides |-> provides, requires |-> requires]

\* variant: lines 280-283 without the "if element else []"
update_provides_requires_NoGuard(xml) ==
    IF ~xml.package THEN ProvReq("AttributeError", <<>>, <<>>)
    ELSE IF ~xml.format THEN ProvReq("AttributeError", <<>>, <<>>)
    ELSE IF xml.provides = <<>> \/ xml.requires = <<>>
    THEN ProvReq("AttributeError", <<>>, <<>>)
    ELSE ProvReq("", MapEntries(findall_entry(xml.provides[1])),
                 MapEntries(findall_entry(xml.requires[1])))

\* lines 276-283 on the parsed snippet
update_provides_requires(xml) ==
    IF ~xml.package THEN ProvReq("AttributeError", <<>>, <<>>)  \* None.find
    ELSE IF ~xml.format THEN ProvReq("AttributeError", <<>>, <<>>)
    ELSE ProvReq("", entries_of(xml.provides), entries_of(xml.requires))

\* ------------------------------------------------------------ erratum links
\* errata_model.rpm_search_dicts: one identity filter per package of the
\* erratum's pkglist; metadata None has no .get
SearchDicts(exc, dicts) == [exc |-> exc, dicts |-> dicts]

rpm_search_dicts(model) ==
    IF model.metadata = <<>> THEN SearchDicts("AttributeError", <<>>)
    ELSE IF "pkglist" \notin DOMAIN model.metadata[1] THEN SearchDicts("", <<>>)
    ELSE SearchDicts("", model.metadata[1].pkglist)

\* a unit matches a filter when it has every field of the filter, equal
Matches(unit, filter) ==
    \A k \in DOMAIN filter : k \in DOMAIN unit.unit_key /\ unit.unit_key[k] = filter[k]

RECURSIVE SetToSeq(_)
SetToSeq(S) ==
    IF S = {} THEN <<>>
    ELSE LET x == CHOOSE y \in S : TRUE IN <<x>> \o SetToSeq(S \ {x})

\* conduit.get_units(criteria): the units of the repository of one type that
\* match the $or of the filters
get_units(model_type, filters, cat) ==
    SetToSeq({c.unit : c \in {d \in cat : /\ d.unit.type_id = model_type
                                          /\ \E n \in 1..Len(filters) :
                                                Matches(d.unit, filters[n])}})

\* ------------------------------------------------------------------ state
\* a call made by a handler: what it raised ("" = it returned) and whether
\* that was a fault of the collaborator and not an effect of the arguments
Event(op, exc, env) == [op |-> op, exc |-> exc, env |-> env]

NoFrame == [new_unit_key |-> EmptyDict, new_unit_metadata |-> EmptyDict,
            model |-> NoModel, unit |-> NoUnit,
            filters |-> <<>>, types |-> <<>>, found |-> <<>>]

\* the classes a collaborator (conduit, file system, parser) may raise
EnvFaults == {"", "IOError", "OSError", "KeyboardInterrupt"}
MoveFaults == {"", "IOError", "OSError", "shutil.Error"}

Log(i, op, exc, env) ==
    trace' = [trace EXCEPT ![i] = Append(@, Event(op, exc, env))]

\* upload returns rep
Return(i, rep) ==
    /\ report' = [report EXCEPT ![i] = <<rep>>]
    /\ pc' = [pc EXCEPT ![i] = "returned"]
    /\ UNCHANGED raised

\* the handler raised exc: the try of upload (lines 101-118); raised keeps
\* the class that left the handler
Raise(i, exc) ==
    LET c == upload_except(exc)
    IN /\ raised' = [raised EXCEPT ![i] = exc]
       /\ IF c.caught
          THEN /\ report' = [report EXCEPT ![i] = <<fail_report(c.msg)>>]
               /\ pc' = [pc EXCEPT ![i] = "returned"]
          ELSE /\ pc' = [pc EXCEPT ![i] = "propagated"]
               /\ UNCHANGED report

Goto(i, label) == pc' = [pc EXCEPT ![i] = label] /\ UNCHANGED <<report, raised>>

\* variant: the unit initialised before the model is validated
handle_package_steps_InitBeforeModel ==
    <<"_handle_package", "pkg_init_unit", "pkg_model", "pkg_move",
      "pkg_repodata", "pkg_provreq", "pkg_save", "handled">>

\* variant: the package unit saved before its file is moved
handle_package_steps_SaveBeforeMove ==
    <<"_handle_package", "pkg_model", "pkg_init_unit", "pkg_save", "pkg_move",
      "pkg_repodata", "pkg_provreq", "handled">>

\* variant: the erratum saved before it is linked
handle_erratum_steps_SaveBeforeLink ==
    <<"_handle_erratum", "err_init_unit", "err_save", "err_config", "handled">>

\* the statements of each handler, in program order; "handled" is its return
handle_package_steps ==
    <<"_handle_package", "pkg_model", "pkg_init_unit", "pkg_move",
      "pkg_repodata", "pkg_provreq", "pkg_save", "handled">>
handle_group_category_steps ==
    <<"_handle_group_category", "grp_init_unit", "grp_save", "handled">>
handle_erratum_steps ==
    <<"_handle_erratum", "err_init_unit", "err_config", "err_save", "handled">>

\* the statement after label
After(steps, label) ==
    steps[(CHOOSE n \in 1..Len(steps) : steps[n] = label) + 1]

\* ------------------------------------------------------------------ upload
\* lines 98-102
Upload(i) ==
    /\ pc[i] = "call"
    /\ IF args[i].type_id \notin DOMAIN handlers
       THEN Return(i, fail_report(MSG_UNSUPPORTED(args[i].type_id)))
       ELSE Goto(i, handlers[args[i].type_id])
    /\ UNCHANGED <<args, frame, trace, fs, catalog, links>>

\* lines 120-122: the handler returned
UploadSuccess(i) ==
    /\ pc[i] = "handled"
    /\ Return(i, success_report)
    /\ UNCHANGED <<args, frame, trace, fs, catalog, links>>

\* --------------------------------------------------------- _handle_package
\* variant: "except rpm.error:" instead of the bare except
handle_package_extract_except_RpmErrorOnly(exc) ==
    IF exc = "rpm.error" THEN "PackageMetadataError" ELSE exc

\* variant: the constructor called outside a try
model_except_NoCatch(exc) == exc

\* lines 222-224: whatever _generate_rpm_data raises
handle_package_extract_except(exc) == "PackageMetadataError"

\* lines 235-236 (and 137-138, 203-204)
model_except(exc) == IF exc = "TypeError" THEN "ModelInstantiationError" ELSE exc

\* lines 243-244
store_except(exc) == IF exc = "IOError" THEN "StoreFileError" ELSE exc

\* lines 219-224
HandlePackageExtract(i) ==
    /\ pc[i] = "_handle_package"
    /\ \E fault \in EnvFaults :
         LET r == generate_rpm_data(args[i].file_path, fs, fault)
         IN /\ Log(i, "_generate_rpm_data", r.exc,
                   r.exc # generate_rpm_data(args[i].file_path, fs, "").exc)
            /\ IF r.exc # ""
               THEN Raise(i, handle_package_extract_except(r.exc)) /\ UNCHANGED frame
               ELSE /\ frame' = [frame EXCEPT ![i].new_unit_key = r.unit_key,
                                              ![i].new_unit_metadata = r.metadata]
                    /\ Goto(i, After(handle_package_steps, "_handle_package"))
    /\ UNCHANGED <<args, fs, catalog, links>>

\* lines 226-229: the user's fields override the extracted ones
merge_user(extracted, user) == DictUpdate(extracted, OrEmpty(user))

\* lines 226-236
HandlePackageModel(i) ==
    /\ pc[i] = "pkg_model"
    /\ LET new_unit_key == merge_user(frame[i].new_unit_key, args[i].unit_key)
           new_unit_metadata == merge_user(frame[i].new_unit_metadata, args[i].metadata)
           r == model_class(args[i].type_id, <<new_unit_metadata>>, <<new_unit_key>>)
       IN /\ Log(i, "model_class", r.exc, FALSE)
          /\ frame' = [frame EXCEPT ![i].new_unit_key = new_unit_key,
                                    ![i].new_unit_metadata = new_unit_metadata,
                                    ![i].model = r.model]
          /\ IF r.exc # "" THEN Raise(i, model_except(r.exc))
             ELSE Goto(i, After(handle_package_steps, "pkg_model"))
    /\ UNCHANGED <<args, fs, catalog, links>>

\* lines 239-241, 243-244
HandlePackageInitUnit(i) ==
    /\ pc[i] = "pkg_init_unit"
    /\ \E fault \in EnvFaults :
         /\ Log(i, "init_unit", fault, fault # "")
         /\ IF fault # ""
            THEN Raise(i, store_except(fault)) /\ UNCHANGED frame
            ELSE /\ frame' = [frame EXCEPT ![i].unit =
                        init_unit(frame[i].model.TYPE, frame[i].model.unit_key,
                                  frame[i].model.metadata, frame[i].model.relative_path)]
                 /\ Goto(i, After(handle_package_steps, "pkg_init_unit"))
    /\ UNCHANGED <<args, fs, catalog, links>>

\* variant: the file copied, not moved
Moved_CopyOnly(fsys, src, dst) ==
    [p \in (DOMAIN fsys) \cup {dst} |-> IF p = dst THEN fsys[src] ELSE fsys[p]]

\* shutil.move(src, dst) on the file system: the file is at dst and no
\* longer at src
Moved(fsys, src, dst) ==
    [p \in ((DOMAIN fsys) \ {src}) \cup {dst} |-> IF p = dst THEN fsys[src] ELSE fsys[p]]

\* shutil.move that copied to dst and then failed to unlink src
Copied(fsys, src, dst) ==
    [p \in (DOMAIN fsys) \cup {dst} |-> IF p = dst THEN fsys[src] ELSE fsys[p]]

\* lines 242-244
HandlePackageMove(i) ==
    /\ pc[i] = "pkg_move"
    /\ LET src == args[i].file_path[1]
           dst == frame[i].unit.storage_path[1]
       IN \E fault \in MoveFaults \cup {"TypeError"} :
            \* a unit without storage path: shutil.move(src, None)
            /\ (frame[i].unit.storage_path = <<>>) <=> (fault = "TypeError")
            /\ (frame[i].unit.storage_path # <<>> /\ src \notin DOMAIN fs)
                  => fault = "IOError"
            /\ Log(i, "move", fault,
                   fault # "" /\ frame[i].unit.storage_path # <<>> /\ src \in DOMAIN fs)
            /\ fs' = IF fault = "" THEN Moved(fs, src, dst)
                     ELSE IF fault = "OSError" THEN Copied(fs, src, dst)
                     ELSE fs
            /\ IF fault # "" THEN Raise(i, store_except(fault))
               ELSE Goto(i, After(handle_package_steps, "pkg_move"))
    /\ UNCHANGED <<args, frame, catalog, links>>

\* line 247: rpm_parse.get_package_xml(unit.storage_path)
HandlePackageRepodata(i) ==
    /\ pc[i] = "pkg_repodata"
    /\ LET path == frame[i].unit.storage_path[1]
       IN \E fault \in EnvFaults :
            LET exc == IF fault # "" THEN fault
                       ELSE IF path \notin DOMAIN fs THEN "IOError"
                       ELSE IF fs[path].xml = <<>> THEN "Exception"
                       ELSE ""
            IN /\ Log(i, "get_package_xml", exc, fault # "")
               /\ IF exc # "" THEN Raise(i, exc) /\ UNCHANGED frame
                  ELSE /\ frame' = [frame EXCEPT ![i].unit.metadata =
                              << DictSet(@[1], "repodata", [primary |-> fs[path].xml[1]]) >>]
                       /\ Goto(i, After(handle_package_steps, "pkg_repodata"))
    /\ UNCHANGED <<args, fs, catalog, links>>

\* line 248
HandlePackageProvidesRequires(i) ==
    /\ pc[i] = "pkg_provreq"
    /\ LET md == frame[i].unit.metadata[1]
           r == update_provides_requires(md.repodata.primary)
       IN /\ Log(i, "_update_provides_requires", r.exc, FALSE)
          /\ IF r.exc # "" THEN Raise(i, r.exc) /\ UNCHANGED frame
             ELSE /\ frame' = [frame EXCEPT ![i].unit.metadata =
                         << DictSet(DictSet(md, "provides", r.provides),
                                    "requires", r.requires) >>]
                  /\ Goto(i, After(handle_package_steps, "pkg_provreq"))
    /\ UNCHANGED <<args, fs, catalog, links>>

\* conduit.save_unit(unit) as the last statement of a handler
SaveUnit(i, next) ==
    \E fault \in EnvFaults :
        /\ Log(i, "save_unit", fault, fault # "")
        /\ IF fault # ""
           THEN Raise(i, fault) /\ UNCHANGED catalog
           ELSE /\ catalog' = catalog \cup {[by |-> i, unit |-> frame[i].unit]}
                /\ Goto(i, next)

\* line 251
HandlePackageSave(i) ==
    /\ pc[i] = "pkg_save"
    /\ SaveUnit(i, After(handle_package_steps, "pkg_save"))
    /\ UNCHANGED <<args, frame, fs, links>>

\* --------------------------------------------------- _handle_group_category
\* lines 199-204
HandleGroupModel(i) ==
    /\ pc[i] = "_handle_group_category"
    /\ LET r == model_class(args[i].type_id, args[i].metadata, args[i].unit_key)
       IN /\ Log(i, "model_class", r.exc, FALSE)
          /\ frame' = [frame EXCEPT ![i].model = r.model]
          /\ IF r.exc # "" THEN Raise(i, model_except(r.exc))
             ELSE Goto(i, After(handle_group_category_steps, "_handle_group_category"))
    /\ UNCHANGED <<args, fs, catalog, links>>

\* conduit.init_unit(model.TYPE, model.unit_key, model.metadata, None)
\* outside any try (lines 140 and 206)
InitUnitNoFile(i, next) ==
    \E fault \in EnvFaults :
        /\ Log(i, "init_unit", fault, fault # "")
        /\ IF fault # ""
           THEN Raise(i, fault) /\ UNCHANGED frame
           ELSE /\ frame' = [frame EXCEPT ![i].unit =
                       init_unit(frame[i].model.TYPE, frame[i].model.unit_key,
                                 frame[i].model.metadata, <<>>)]
                /\ Goto(i, next)

\* line 206
HandleGroupInitUnit(i) ==
    /\ pc[i] = "grp_init_unit"
    /\ InitUnitNoFile(i, After(handle_group_category_steps, "grp_init_unit"))
    /\ UNCHANGED <<args, fs, catalog, links>>

\* line 207
HandleGroupSave(i) ==
    /\ pc[i] = "grp_save"
    /\ SaveUnit(i, After(handle_group_category_steps, "grp_save"))
    /\ UNCHANGED <<args, frame, fs, links>>

\* ---------------------------------------------------------- _handle_erratum
\* lines 133-138
HandleErratumModel(i) ==
    /\ pc[i] = "_handle_erratum"
    /\ LET r == model_class(args[i].type_id, args[i].metadata, args[i].unit_key)
       IN /\ Log(i, "model_class", r.exc, FALSE)
          /\ frame' = [frame EXCEPT ![i].model = r.model]
          /\ IF r.exc # "" THEN Raise(i, model_except(r.exc))
             ELSE Goto(i, After(handle_erratum_steps, "_handle_erratum"))
    /\ UNCHANGED <<args, fs, catalog, links>>

\* line 140
HandleErratumInitUnit(i) ==
    /\ pc[i] = "err_init_unit"
    /\ InitUnitNoFile(i, After(handle_erratum_steps, "err_init_unit"))
    /\ UNCHANGED <<args, fs, catalog, links>>

\* variant: only the ordinary packages are searched
link_model_types_RpmOnly == <<RPM_TYPE>>

\* line 160: the types _link_errata_to_rpms goes through
link_model_types == <<RPM_TYPE, SRPM_TYPE>>

\* config.get_boolean(key): None (<<>>) when the option is not set
get_boolean(config, key) ==
    IF key \in DOMAIN config THEN <<config[key]>> ELSE <<>>

\* variant: the test of line 142 without its "not"
Not_Dropped(x) == x = <<TRUE>>

\* "not x" for x the result of get_boolean
Not(x) == x = <<>> \/ x = <<FALSE>>

\* where the loops of _link_errata_to_rpms go next (lines 160 and 163)
NextLinkPc(types, found) ==
    IF found # <<>> THEN "link_unit"
    ELSE IF types # <<>> THEN "link_get_units"
    ELSE After(handle_erratum_steps, "err_config")

\* lines 142-143 and 157-159
HandleErratumConfig(i) ==
    /\ pc[i] = "err_config"
    /\ IF Not(get_boolean(args[i].config, CONFIG_SKIP_LINK_ERRATUM))
       THEN LET r == rpm_search_dicts(frame[i].model)
            IN IF r.exc # ""
               THEN /\ Log(i, "rpm_search_dicts", r.exc, FALSE)
                    /\ Raise(i, r.exc)
                    /\ UNCHANGED frame
               ELSE /\ frame' = [frame EXCEPT ![i].filters = r.dicts,
                                              ![i].types = link_model_types]
                    /\ Goto(i, "link_get_units")
                    /\ UNCHANGED trace
       ELSE /\ Goto(i, After(handle_erratum_steps, "err_config"))
            /\ UNCHANGED <<frame, trace>>
    /\ UNCHANGED <<args, fs, catalog, links>>

\* lines 160-163: the query for the next model_type
LinkGetUnits(i) ==
    /\ pc[i] = "link_get_units"
    /\ \E fault \in EnvFaults :
         LET model_type == Head(frame[i].types)
             found == get_units(model_type, frame[i].filters, catalog)
         IN /\ Log(i, "get_units", fault, fault # "")
            /\ IF fault # ""
               THEN Raise(i, fault) /\ UNCHANGED frame
               ELSE /\ frame' = [frame EXCEPT ![i].types = Tail(@),
                                              ![i].found = found]
                    /\ Goto(i, NextLinkPc(Tail(frame[i].types), found))
    /\ UNCHANGED <<args, fs, catalog, links>>

\* line 164
LinkUnit(i) ==
    /\ pc[i] = "link_unit"
    /\ \E fault \in EnvFaults :
         LET unit == Head(frame[i].found)
         IN /\ Log(i, "link_unit", fault, fault # "")
            /\ IF fault # ""
               THEN Raise(i, fault) /\ UNCHANGED <<frame, links>>
               ELSE /\ links' = Append(links, [from |-> frame[i].unit, to |-> unit,
                                               bidirectional |-> TRUE])
                    /\ frame' = [frame EXCEPT ![i].found = Tail(@)]
                    /\ Goto(i, NextLinkPc(frame[i].types, Tail(frame[i].found)))
    /\ UNCHANGED <<args, fs, catalog>>

\* line 145
HandleErratumSave(i) ==
    /\ pc[i] = "err_save"
    /\ SaveUnit(i, After(handle_erratum_steps, "err_save"))
    /\ UNCHANGED <<args, frame, fs, links>>

\* ------------------------------------------------------------------ inputs
PackageTypes == {RPM_TYPE, SRPM_TYPE}
Types == {RPM_TYPE, SRPM_TYPE, GROUP_TYPE, CATEGORY_TYPE, ERRATA_TYPE,
          YUM_MD_FILE_TYPE, "widget"}

\* the unit_key argument: None, or the fields the user supplies
UserKeys ==
    {<<>>, <<EmptyDict>>,
     <<[checksum |-> "deadbeef"]>>,
     <<[checksumtype |-> "md5", checksum |-> "deadbeef"]>>,
     <<[name |-> "renamed"]>>,
     <<[bogus |-> "x"]>>,
     <<[id |-> "RHSA-1"]>>,
     <<[id |-> "g1", repo_id |-> "repo"]>>}

\* the metadata argument
UserMetadata ==
    {<<>>, <<EmptyDict>>,
     <<[vendor |-> "uservendor"]>>,
     <<[provides |-> <<[name |-> "usercap"]>>]>>,
     <<[pkglist |-> <<[name |-> "pkg"]>>]>>,
     <<[pkglist |-> <<[name |-> "pkg"], [name |-> "other"]>>]>>}

Configs == {EmptyDict,
            [k \in {CONFIG_SKIP_LINK_ERRATUM} |-> TRUE],
            [k \in {CONFIG_SKIP_LINK_ERRATUM} |-> FALSE]}

Epochs == {<<>>} \cup {<<n>> : n \in 0..MaxEpoch}
Headers == {Header(e, s, n) : e \in Epochs, s \in BOOLEAN, n \in BOOLEAN}
DefaultHeader == Header(<<>>, FALSE, FALSE)

Runs == [byte : {0, 1}, count : {1, CHECKSUM_READ_BUFFER_SIZE}]
Contents == UNION {[1..n -> Runs] : n \in 0..MaxRuns}
DefaultContent == <<[byte |-> 1, count |-> 1]>>

Snippets ==
    {<<>>, <<FullSnippet>>,
     <<Snippet(TRUE, TRUE, <<>>, <<>>)>>,
     <<Snippet(TRUE, TRUE, << <<>> >>, << <<OtherChild, Entry("r1")>> >>)>>,
     <<Snippet(TRUE, TRUE, << <<Entry("p2"), OtherChild, Entry("p1")>> >>, <<>>)>>,
     <<Snippet(TRUE, FALSE, <<>>, <<>>)>>,
     <<Snippet(FALSE, FALSE, <<>>, <<>>)>>}

Files ==
    {File(TRUE, h, DefaultContent, <<FullSnippet>>) : h \in Headers}
    \cup {File(TRUE, DefaultHeader, c, <<FullSnippet>>) : c \in Contents}
    \cup {File(TRUE, DefaultHeader, DefaultContent, x) : x \in Snippets}
    \cup {File(FALSE, DefaultHeader, DefaultContent, <<>>)}

DefaultFile == File(TRUE, DefaultHeader, DefaultContent, <<FullSnippet>>)

\* where the upload transport put the file of invocation i
StagedPath(i) == <<"tmp", "upload", "pkg-" \o Str(i) \o ".rpm">>

\* file_path and the file behind it: no path, a path without a file, a file
Staged(path, file) == [path |-> path, file |-> file]
StagedFiles(i) ==
    {Staged(<<>>, <<>>), Staged(<<StagedPath(i)>>, <<>>)}
    \cup {Staged(<<StagedPath(i)>>, <<f>>) : f \in Files}
SimpleStaged(i) ==
    {Staged(<<>>, <<>>), Staged(<<StagedPath(i)>>, <<DefaultFile>>)}

\* the units the repository already holds
ExistingKey(name, arch) ==
    [name |-> name, epoch |-> "0", version |-> "1.0", release |-> "1",
     arch |-> arch, checksumtype |-> TYPE_SHA256, checksum |-> "aa"]
ExistingUnits ==
    {init_unit(RPM_TYPE, ExistingKey("pkg", "noarch"), <<EmptyDict>>, <<>>),
     init_unit(RPM_TYPE, ExistingKey("other", "noarch"), <<EmptyDict>>, <<>>),
     init_unit(SRPM_TYPE, ExistingKey("pkg", "src"), <<EmptyDict>>, <<>>)}
Catalogs ==
    {{[by |-> 0, unit |-> u] : u \in S} :
        S \in {T \in SUBSET ExistingUnits : Cardinality(T) <= MaxUnits}}

Args(type_id, unit_key, metadata, staged, config) ==
    [type_id |-> type_id, unit_key |-> unit_key, metadata |-> metadata,
     file_path |-> staged.path, staged |-> staged.file, config |-> config]

\* the state right after one upload(...) is called
Init ==
    \E type_id \in Types, unit_key \in UserKeys, metadata \in UserMetadata,
       staged \in StagedFiles(1), config \in Configs, cat \in Catalogs :
        /\ type_id \notin PackageTypes => staged \in SimpleStaged(1)
        /\ type_id # ERRATA_TYPE => config = EmptyDict /\ cat = {}
        /\ args = [i \in {1} |-> Args(type_id, unit_key, metadata, staged, config)]
        /\ pc = [i \in {1} |-> "call"]
        /\ frame = [i \in {1} |-> NoFrame]
        /\ report = [i \in {1} |-> <<>>]
        /\ raised = [i \in {1} |-> ""]
        /\ trace = [i \in {1} |-> <<>>]
        /\ fs = IF staged.file = <<>> THEN [p \in {} |-> DefaultFile]
                ELSE [p \in {staged.path[1]} |-> staged.file[1]]
        /\ catalog = cat
        /\ links = <<>>

Next ==
    \E i \in Invs :
        \/ Upload(i)
        \/ UploadSuccess(i)
        \/ HandlePackageExtract(i)
        \/ HandlePackageModel(i)
        \/ HandlePackageInitUnit(i)
        \/ HandlePackageMove(i)
        \/ HandlePackageRepodata(i)
        \/ HandlePackageProvidesRequires(i)
        \/ HandlePackageSave(i)
        \/ HandleGroupModel(i)
        \/ HandleGroupInitUnit(i)
        \/ HandleGroupSave(i)
        \/ HandleErratumModel(i)
        \/ HandleErratumInitUnit(i)
        \/ HandleErratumConfig(i)
        \/ LinkGetUnits(i)
        \/ LinkUnit(i)
        \/ HandleErratumSave(i)

Spec == Init /\ [][Next]_vars

\* ------------------------------------------------- two concurrent uploads
\* Each caller has its own staged file and uploads its own unit; the steps
\* of the two invocations interleave at the calls of the collaborators.
ConcFile(i) ==
    File(TRUE, [DefaultHeader EXCEPT !.name = "pkg-" \o Str(i)],
         <<[byte |-> i % 2, count |-> i]>>,
         <<Snippet(TRUE, TRUE, <<>>, << <<Entry("r-" \o Str(i))>> >>)>>)

ConcPkgList == <<[name |-> "pkg"], [name |-> "pkg-1"], [name |-> "pkg-2"]>>

ConcScenarios(i) ==
    {Args(RPM_TYPE, <<>>, <<>>, Staged(<<StagedPath(i)>>, <<ConcFile(i)>>), EmptyDict),
     Args(SRPM_TYPE, <<[checksum |-> "deadbeef"]>>, <<[vendor |-> "uservendor"]>>,
          Staged(<<StagedPath(i)>>, <<ConcFile(i)>>), EmptyDict),
     Args(RPM_TYPE, <<>>, <<>>,
          Staged(<<StagedPath(i)>>, <<File(FALSE, DefaultHeader, DefaultContent, <<>>)>>),
          EmptyDict),
     Args(ERRATA_TYPE, <<[id |-> "RHSA-" \o Str(i)]>>, <<[pkglist |-> ConcPkgList]>>,
          Staged(<<>>, <<>>), EmptyDict),
     Args(ERRATA_TYPE, <<>>, <<>>, Staged(<<>>, <<>>), EmptyDict),
     Args(GROUP_TYPE, <<[id |-> "g-" \o Str(i), repo_id |-> "repo"]>>, <<EmptyDict>>,
          Staged(<<>>, <<>>), EmptyDict),
     Args("widget", <<>>, <<>>, Staged(<<>>, <<>>), EmptyDict)}

ConcCatalog ==
    {[by |-> 0, unit |-> init_unit(RPM_TYPE, ExistingKey("pkg", "noarch"), <<EmptyDict>>, <<>>)],
     [by |-> 0, unit |-> init_unit(SRPM_TYPE, ExistingKey("pkg", "src"), <<EmptyDict>>, <<>>)]}

\* the state right after two callers have called upload(...)
InitConc ==
    \E a1 \in ConcScenarios(1), a2 \in ConcScenarios(2) :
        /\ args = <<a1, a2>>
        /\ pc = [i \in {1, 2} |-> "call"]
        /\ frame = [i \in {1, 2} |-> NoFrame]
        /\ report = [i \in {1, 2} |-> <<>>]
        /\ raised = [i \in {1, 2} |-> ""]
        /\ trace = [i \in {1, 2} |-> <<>>]
        /\ fs = [p \in {a.file_path[1] : a \in {b \in {a1, a2} : b.staged # <<>>}} |->
                    IF a1.staged # <<>> /\ p = a1.file_path[1]
                    THEN a1.staged[1] ELSE a2.staged[1]]
        /\ catalog = ConcCatalog
        /\ links = <<>>

SpecConc == InitConc /\ [][Next]_vars

\* ============================================================== properties
\* positions of the calls of op in the trace of invocation i, and of the
\* calls that returned normally
Calls(i, op) == {n \in 1..Len(trace[i]) : trace[i][n].op = op}
OkCalls(i, op) == {n \in Calls(i, op) : trace[i][n].exc = ""}
Failed(i, op) == \E n \in Calls(i, op) : trace[i][n].exc # ""

IsPackage(i) == args[i].type_id \in {"rpm", "srpm"}
Returned(i) == pc[i] = "returned"
SavedBy(i) == {c \in catalog : c.by = i}

\* the file system as it was when upload was called
StagedFs(i) ==
    IF args[i].staged = <<>> THEN [p \in {} |-> DefaultFile]
    ELSE [p \in {args[i].file_path[1]} |-> args[i].staged[1]]

Errors(i) == report[i][1].details["errors"]
FailedWith(i, msg) ==
    /\ report[i] # <<>>
    /\ ~report[i][1].success_flag
    /\ DOMAIN report[i][1].details = {"errors"}
    /\ Errors(i) = <<msg>>

\* C1: in a package upload every move comes after a completed extraction
\* and a successful model construction, and every save_unit comes after a
\* successful move.
C1_ExtractValidateMoveSave ==
    \A i \in Invs : IsPackage(i) =>
        /\ \A n \in Calls(i, "move") :
              /\ \E a \in OkCalls(i, "_generate_rpm_data") : a < n
              /\ \E b \in OkCalls(i, "model_class") : b < n
        /\ \A n \in Calls(i, "save_unit") :
              \E m \in OkCalls(i, "move") : m < n

C1_Witness ==
    \E i \in Invs : /\ IsPackage(i) /\ Returned(i)
                    /\ OkCalls(i, "move") # {} /\ OkCalls(i, "save_unit") # {}

\* C2: in every handler save_unit is called at most once and nothing follows
\* it (no move, no link, no change of the unit); a step that fails ends the
\* handler, so a failure before save_unit leaves no unit persisted.
C2_SaveIsLast ==
    \A i \in Invs :
        /\ Cardinality(Calls(i, "save_unit")) <= 1
        /\ \A n \in Calls(i, "save_unit") : n = Len(trace[i])
        /\ \A n \in 1..Len(trace[i]) : trace[i][n].exc # "" => n = Len(trace[i])
        /\ \A c \in SavedBy(i) :
              /\ c.unit = frame[i].unit
              /\ \A n \in 1..Len(trace[i]) : trace[i][n].exc = ""
        /\ Cardinality(SavedBy(i)) <= 1

C2_Witness ==
    \E i \in Invs : /\ args[i].type_id = "erratum" /\ Returned(i)
                    /\ OkCalls(i, "link_unit") # {} /\ SavedBy(i) # {}

\* C3: in a package upload a failed move, whatever it raised, ends in the
\* storage failure report and persists nothing.
C3_MoveFailureIsStoreFailure ==
    \A i \in Invs : (IsPackage(i) /\ Returned(i) /\ Failed(i, "move")) =>
        /\ FailedWith(i, "file could not be deployed into Pulp's storage")
        /\ SavedBy(i) = {}

\* C4: upload never lets an exception through, and a handler fault outside
\* the three classified ones ends in the catch-all report.
C4_NeverPropagates ==
    \A i \in Invs :
        /\ pc[i] # "propagated"
        /\ Returned(i) => report[i] # <<>>
        /\ (Returned(i) /\ raised[i] \notin {"", "ModelInstantiationError",
                                             "StoreFileError", "PackageMetadataError"})
              => FailedWith(i, "unexpected error occurred importing uploaded file")

C4_Witness ==
    \E i \in Invs : /\ Returned(i) /\ raised[i] = "KeyboardInterrupt"
                    /\ FailedWith(i, "unexpected error occurred importing uploaded file")

\* C5: a type outside the five registered ones gets the unsupported-type
\* report at once: no handler step runs, nothing is moved, linked or saved.
C5_UnsupportedType ==
    \A i \in Invs :
        (args[i].type_id \notin {"rpm", "srpm", "package_group",
                                 "package_category", "erratum"} /\ pc[i] # "call") =>
            /\ Returned(i)
            /\ FailedWith(i, args[i].type_id \o " is not a supported type for upload")
            /\ trace[i] = <<>>
            /\ frame[i] = NoFrame
            /\ fs = StagedFs(i)
            /\ SavedBy(i) = {}
            /\ links = <<>>

C5_Witness ==
    \E i \in Invs : /\ args[i].type_id = "widget" /\ Returned(i)
                    /\ args[i].staged # <<>>
                    /\ Errors(i) = <<"widget is not a supported type for upload">>

\* C6: in a package upload a failure of _generate_rpm_data, whatever it
\* raised, ends in the metadata extraction report.
C6_ExtractionFailure ==
    \A i \in Invs :
        (IsPackage(i) /\ Returned(i) /\ Failed(i, "_generate_rpm_data")) =>
            FailedWith(i, "metadata for the given package could not be extracted")

C6_Witness ==
    \E i \in Invs : /\ IsPackage(i) /\ Returned(i)
                    /\ \E n \in Calls(i, "_generate_rpm_data") :
                          trace[i][n].exc = "IOError"
                    /\ FailedWith(i, "metadata for the given package could not be extracted")

\* C7: for every registered type a TypeError of the model constructor ends
\* in the invalid-metadata report, before init_unit, move and save_unit.
C7_ModelInstantiationFailure ==
    \A i \in Invs :
        (Returned(i) /\ \E n \in Calls(i, "model_class") : trace[i][n].exc = "TypeError") =>
            /\ FailedWith(i, "metadata for the uploaded file was invalid")
            /\ Calls(i, "init_unit") = {}
            /\ Calls(i, "move") = {}
            /\ Calls(i, "save_unit") = {}
            /\ fs = StagedFs(i)
            /\ SavedBy(i) = {}

C7_Witness ==
    \E i \in Invs : /\ args[i].type_id = "erratum" /\ args[i].unit_key = <<>>
                    /\ Returned(i)
                    /\ FailedWith(i, "metadata for the uploaded file was invalid")

\* C8: the report is the success report (success, one unit, no details)
\* exactly when the handler ran to its end, having saved exactly one unit;
\* every other report is a failure with zero units and one message.
IsSuccessReport(r) ==
    /\ r.success_flag /\ r.added_count = 1 /\ r.updated_count = 0
    /\ r.removed_count = 0 /\ DOMAIN r.details = {}

IsFailureReport(r) ==
    /\ ~r.success_flag /\ r.added_count = 0 /\ r.updated_count = 0
    /\ r.removed_count = 0 /\ DOMAIN r.details = {"errors"}
    /\ Len(r.details["errors"]) = 1

HandlerCompleted(i) ==
    /\ trace[i] # <<>>
    /\ \A n \in 1..Len(trace[i]) : trace[i][n].exc = ""
    /\ trace[i][Len(trace[i])].op = "save_unit"
    /\ Cardinality(OkCalls(i, "save_unit")) = 1
    /\ Cardinality(SavedBy(i)) = 1
    /\ raised[i] = ""

C8_SuccessIffCompleted ==
    \A i \in Invs : Returned(i) =>
        /\ report[i] # <<>>
        /\ IsSuccessReport(report[i][1]) <=> HandlerCompleted(i)
        /\ ~IsSuccessReport(report[i][1]) => IsFailureReport(report[i][1])

C8_Witness ==
    \E i \in Invs : /\ Returned(i) /\ HandlerCompleted(i)
                    /\ IsSuccessReport(report[i][1])

\* the digest of all the bytes of a file, in one update
FullDigest(content) == HexDigest(HashUpdate(HashNew, content))

UserKey(i) == OrEmpty(args[i].unit_key)
UserMeta(i) == OrEmpty(args[i].metadata)

\* C9 as stated: the persisted checksum of a package is the SHA-256 digest
\* of the staged file whatever the user supplied.
C9_ChecksumAlwaysComputed ==
    \A i \in Invs : IsPackage(i) =>
        \A c \in SavedBy(i) :
            /\ c.unit.unit_key["checksum"] = FullDigest(args[i].staged[1].content)
            /\ c.unit.unit_key["checksumtype"] = "sha256"

\* C9 amended: the persisted checksum (checksum type) of a package is the
\* user-supplied one when the partial unit key has that field, and otherwise
\* the SHA-256 digest of all the bytes of the staged file ("sha256").
C9_ChecksumComputedUnlessSupplied ==
    \A i \in Invs : IsPackage(i) =>
        \A c \in SavedBy(i) :
            /\ c.unit.unit_key["checksum"] =
                  IF "checksum" \in DOMAIN UserKey(i) THEN UserKey(i)["checksum"]
                  ELSE FullDigest(args[i].staged[1].content)
            /\ c.unit.unit_key["checksumtype"] =
                  IF "checksumtype" \in DOMAIN UserKey(i) THEN UserKey(i)["checksumtype"]
                  ELSE "sha256"

C9_Witness ==
    \E i \in Invs : /\ IsPackage(i) /\ SavedBy(i) # {}
                    /\ "checksum" \notin DOMAIN UserKey(i)
                    /\ TotalLen(args[i].staged[1].content) > CHECKSUM_READ_BUFFER_SIZE

\* what _generate_rpm_data extracts from the staged file
ExtractedFrom(i) == generate_rpm_data(args[i].file_path, StagedFs(i), "")

\* C10: every field of the persisted key and metadata of a package carries
\* the user-supplied value when the user supplied the field, and the
\* extracted value otherwise.
C10_UserFieldsOverride ==
    \A i \in Invs : IsPackage(i) =>
        \A c \in SavedBy(i) :
            /\ \A f \in DOMAIN c.unit.unit_key :
                  c.unit.unit_key[f] = IF f \in DOMAIN UserKey(i) THEN UserKey(i)[f]
                                       ELSE ExtractedFrom(i).unit_key[f]
            /\ \A f \in DOMAIN c.unit.metadata[1] :
                  IF f \in DOMAIN UserMeta(i)
                  THEN c.unit.metadata[1][f] = UserMeta(i)[f]
                  ELSE f \in DOMAIN ExtractedFrom(i).metadata
                          => c.unit.metadata[1][f] = ExtractedFrom(i).metadata[f]

\* the report of a completed upload
Succeeded(i) == Returned(i) /\ report[i] # <<>> /\ report[i][1].success_flag

\* the units of the two package types the repository holds that match one of
\* the erratum's search predicates
LinkTargets(i) ==
    {c.unit : c \in {d \in catalog :
        /\ d.unit.type_id \in {"rpm", "srpm"}
        /\ args[i].metadata # <<>>
        /\ "pkglist" \in DOMAIN args[i].metadata[1]
        /\ \E n \in 1..Len(args[i].metadata[1].pkglist) :
              \A k \in DOMAIN args[i].metadata[1].pkglist[n] :
                  /\ k \in DOMAIN d.unit.unit_key
                  /\ d.unit.unit_key[k] = args[i].metadata[1].pkglist[n][k]}}

C12_SkipSuppressesLinking ==
    \A i \in Invs : args[i].type_id = "erratum" =>
        /\ args[i].config = [k \in {"skip_erratum_link"} |-> TRUE] =>
              /\ Calls(i, "get_units") = {}
              /\ Calls(i, "link_unit") = {}
              /\ links = <<>>
              /\ Succeeded(i) =>
                    /\ OkCalls(i, "model_class") # {}
                    /\ OkCalls(i, "init_unit") # {}
                    /\ OkCalls(i, "save_unit") # {}
                    /\ SavedBy(i) # {}
        /\ (DOMAIN args[i].config = {} /\ Succeeded(i)) =>
              Cardinality(OkCalls(i, "get_units")) = 2

C12_Witness ==
    \E i \in Invs :
        /\ args[i].type_id = "erratum" /\ Succeeded(i)
        /\ args[i].config = [k \in {"skip_erratum_link"} |-> TRUE]
        /\ LinkTargets(i) # {}
        /\ SavedBy(i) # {}

\* the header of the staged file of invocation i
\* what an invocation returns and persists when it runs alone and no
\* collaborator fails: the statements of its handler applied to its own
\* arguments and its own staged file only
Outcome(rep, saved) == [report |-> rep, saved |-> saved]
Failure(exc) == Outcome(fail_report(upload_except(exc).msg), {})

AlonePackage(i) ==
    LET g == generate_rpm_data(args[i].file_path, StagedFs(i), "")
        m == model_class(args[i].type_id,
                         << merge_user(g.metadata, args[i].metadata) >>,
                         << merge_user(g.unit_key, args[i].unit_key) >>)
        u == init_unit(m.model.TYPE, m.model.unit_key, m.model.metadata,
                       m.model.relative_path)
        xml == args[i].staged[1].xml
        r == update_provides_requires(xml[1])
    IN IF g.exc # "" THEN Failure(handle_package_extract_except(g.exc))
       ELSE IF m.exc # "" THEN Failure(model_except(m.exc))
       ELSE IF xml = <<>> THEN Failure("Exception")
       ELSE IF r.exc # "" THEN Failure(r.exc)
       ELSE Outcome(success_report,
                    {[u EXCEPT !.metadata =
                        << DictSet(DictSet(DictSet(@[1], "repodata", [primary |-> xml[1]]),
                                           "provides", r.provides),
                                   "requires", r.requires) >>]})

AloneNoFile(i) ==
    LET m == model_class(args[i].type_id, args[i].metadata, args[i].unit_key)
        u == init_unit(m.model.TYPE, m.model.unit_key, m.model.metadata, <<>>)
        links_made == args[i].type_id = ERRATA_TYPE
                      /\ Not(get_boolean(args[i].config, CONFIG_SKIP_LINK_ERRATUM))
    IN IF m.exc # "" THEN Failure(model_except(m.exc))
       ELSE IF links_made /\ rpm_search_dicts(m.model).exc # ""
       THEN Failure(rpm_search_dicts(m.model).exc)
       ELSE Outcome(success_report, {u})

Alone(i) ==
    IF args[i].type_id \notin DOMAIN handlers
    THEN Outcome(fail_report(MSG_UNSUPPORTED(args[i].type_id)), {})
    ELSE IF IsPackage(i) THEN AlonePackage(i)
    ELSE AloneNoFile(i)

\* the last call of the handler failed in the collaborator itself
CollaboratorFailed(i) == trace[i] # <<>> /\ trace[i][Len(trace[i])].env

\* what the same failure of the same call ends in when the invocation runs
\* alone
AloneWithFailure(i) ==
    LET e == trace[i][Len(trace[i])]
    IN Failure(IF e.op = "_generate_rpm_data" THEN handle_package_extract_except(e.exc)
               ELSE IF IsPackage(i) /\ e.op \in {"init_unit", "move"}
               THEN store_except(e.exc)
               ELSE e.exc)

\* C13: of two invocations running concurrently on their own staged files
\* and their own units, each returns the report and persists the unit (key,
\* metadata, storage path) that it returns and persists when run alone with
\* the same outcomes of the collaborators' calls, under every interleaving;
\* the file of a persisted package is its own staged file.
C13_ConcurrentAsAlone ==
    \A i \in Invs :
        Returned(i) =>
            LET alone == IF CollaboratorFailed(i) THEN AloneWithFailure(i) ELSE Alone(i)
            IN /\ report[i] = <<alone.report>>
               /\ {c.unit : c \in SavedBy(i)} = alone.saved
               /\ \A u \in alone.saved :
                    u.storage_path # <<>> =>
                        /\ u.storage_path[1] \in DOMAIN fs
                        /\ fs[u.storage_path[1]] = args[i].staged[1]

\* two packages uploaded at the same time, both persisted
C13_Witness ==
    /\ Invs = {1, 2}
    /\ Succeeded(1) /\ Succeeded(2)
    /\ IsPackage(1) /\ IsPackage(2)
    /\ SavedBy(1) # {} /\ SavedBy(2) # {}

StagedHeader(i) == args[i].staged[1].headers

\* the extraction of a package upload has just returned
JustExtracted(i) ==
    /\ IsPackage(i) /\ pc[i] = "pkg_model"
    /\ Len(trace[i]) = 1
    /\ trace[i][1].op = "_generate_rpm_data" /\ trace[i][1].exc = ""

\* decimal numerals, by position
DecimalStrings == <<"0", "1", "2", "3", "4", "5", "6", "7", "8", "9", "10",
                    "11", "12", "13", "14", "15">>

\* C14: the extracted epoch is the string "0" when the header declares no
\* epoch and the decimal string of the declared epoch otherwise.
C14_EpochIsString ==
    \A i \in Invs : JustExtracted(i) =>
        frame[i].new_unit_key["epoch"] =
            IF StagedHeader(i).epoch = <<>> THEN "0"
            ELSE DecimalStrings[StagedHeader(i).epoch[1] + 1]

C14_Witness ==
    \E i \in Invs : /\ JustExtracted(i)
                    /\ StagedHeader(i).epoch = <<10>>
                    /\ frame[i].new_unit_key["epoch"] = "10"

\* C15: the extracted arch is "nosrc" for a source package with tag 1051,
\* "src" for a source package without it, and the header's arch for every
\* other package, with or without the tag.
C15_ArchOfSourcePackages ==
    \A i \in Invs : JustExtracted(i) =>
        /\ (StagedHeader(i).sourcepackage /\ 1051 \in StagedHeader(i).tags)
              => frame[i].new_unit_key["arch"] = "nosrc"
        /\ (StagedHeader(i).sourcepackage /\ 1051 \notin StagedHeader(i).tags)
              => frame[i].new_unit_key["arch"] = "src"
        /\ ~StagedHeader(i).sourcepackage
              => frame[i].new_unit_key["arch"] = StagedHeader(i).arch

C15_Witness ==
    \E i \in Invs : /\ JustExtracted(i)
                    /\ ~StagedHeader(i).sourcepackage
                    /\ 1051 \in StagedHeader(i).tags
                    /\ frame[i].new_unit_key["arch"] = "noarch"

\* the snippet the extractor was given
GivenSnippet(i) == frame[i].unit.metadata[1]["repodata"]["primary"]

\* the capabilities of the entry children of an optional element, in order
EntryNames(el) ==
    IF el = <<>> THEN <<>>
    ELSE LET es == SelectSeq(el[1], LAMBDA c : c.tag = "entry")
         IN [n \in 1..Len(es) |-> [name |-> es[n].name]]

\* C16: on a snippet with a package element and a format element the
\* extraction does not fail, whether or not provides and requires are
\* there; each list has one capability per entry child, in document order,
\* and is empty for a missing or entry-less element.
C16_MissingProvidesRequires ==
    \A i \in Invs : \A n \in Calls(i, "_update_provides_requires") :
        (GivenSnippet(i).package /\ GivenSnippet(i).format) =>
            /\ trace[i][n].exc = ""
            /\ frame[i].unit.metadata[1]["provides"] = EntryNames(GivenSnippet(i).provides)
            /\ frame[i].unit.metadata[1]["requires"] = EntryNames(GivenSnippet(i).requires)

C16_Witness ==
    \E i \in Invs :
        /\ OkCalls(i, "_update_provides_requires") # {}
        /\ GivenSnippet(i).requires = <<>>
        /\ Len(frame[i].unit.metadata[1]["provides"]) = 2
        /\ frame[i].unit.metadata[1]["requires"] = <<>>

\* C17: a package upload whose snippet generation or parsing fails after a
\* successful move ends in the catch-all report without a save_unit call,
\* with the file at its storage path and gone from its staged path.
C17_SnippetFailureAfterMove ==
    \A i \in Invs :
        (/\ IsPackage(i) /\ Returned(i) /\ OkCalls(i, "move") # {}
         /\ Failed(i, "get_package_xml") \/ Failed(i, "_update_provides_requires")) =>
            /\ FailedWith(i, "unexpected error occurred importing uploaded file")
            /\ Calls(i, "save_unit") = {}
            /\ SavedBy(i) = {}
            /\ frame[i].unit.storage_path[1] \in DOMAIN fs
            /\ fs[frame[i].unit.storage_path[1]] = args[i].staged[1]
            /\ args[i].file_path[1] \notin DOMAIN fs

C17_Witness ==
    \E i \in Invs :
        /\ IsPackage(i) /\ Returned(i) /\ OkCalls(i, "move") # {}
        /\ Failed(i, "_update_provides_requires")
        /\ SavedBy(i) = {}
        /\ frame[i].unit.storage_path[1] \in DOMAIN fs

\* C18: a package upload that fails at extraction or at model validation
\* leaves the world as it was: the staged file in place, no init_unit, no
\* move, nothing linked or saved.
C18_EarlyFailureChangesNothing ==
    \A i \in Invs :
        (/\ IsPackage(i) /\ Returned(i)
         /\ Failed(i, "_generate_rpm_data") \/ Failed(i, "model_class")) =>
            /\ fs = StagedFs(i)
            /\ Calls(i, "init_unit") = {}
            /\ Calls(i, "move") = {}
            /\ Calls(i, "link_unit") = {}
            /\ Calls(i, "save_unit") = {}
            /\ frame[i].unit = NoUnit
            /\ SavedBy(i) = {}
            /\ links = <<>>

C18_Witness ==
    \E i \in Invs :
        /\ IsPackage(i) /\ Returned(i) /\ Failed(i, "model_class")
        /\ args[i].staged # <<>> /\ fs = StagedFs(i)

\* upload has called a handler for invocation i
Dispatched(i) ==
    \/ pc[i] \notin {"call", "returned", "propagated"}
    \/ trace[i] # <<>>

\* C19: upload calls a handler exactly for the five registered types; an
\* upload of the yum metadata file type never reaches a handler and ends in
\* the unsupported-type report with the file system and catalog untouched.
C19_YumMetadataFileNotRegistered ==
    \A i \in Invs :
        /\ Dispatched(i) => args[i].type_id \in {"rpm", "srpm", "package_group",
                                                 "package_category", "erratum"}
        /\ (args[i].type_id \in {"rpm", "srpm", "package_group",
                                 "package_category", "erratum"} /\ Returned(i))
              => trace[i] # <<>>
        /\ pc[i] # "_handle_yum_metadata_file"
        /\ (args[i].type_id = "yum_repo_metadata_file" /\ Returned(i)) =>
              /\ FailedWith(i, "yum_repo_metadata_file is not a supported type for upload")
              /\ fs = StagedFs(i)
              /\ catalog = {}

C19_Witness ==
    \E i \in Invs :
        /\ args[i].type_id = "yum_repo_metadata_file" /\ Returned(i)
        /\ args[i].staged # <<>> /\ args[i].unit_key # <<>>
        /\ FailedWith(i, "yum_repo_metadata_file is not a supported type for upload")

====
